---- MODULE Spec2Model ----
(***************************************************************************)
(* Model of 2_epoll_server/epoll_linux.go: the epoll wrapper that keeps    *)
(* the map from raw descriptors to net.Conn handles (e.connections) next   *)
(* to the kernel's epoll instance (e.fd), under a sync.RWMutex.            *)
(*                                                                         *)
(* Add, Remove and Wait are executed by concurrent goroutines.  Each is    *)
(* split at the points where another goroutine can interleave: the epoll   *)
(* syscall, the acquisition of the lock, and the critical section that     *)
(* ends with the deferred unlock and the return.                           *)
(***************************************************************************)
EXTENDS Integers, Sequences, FiniteSets, TLC

\* ---------------------------------------------------------------- bounds
NumWorkers == 2      \* goroutines that call Add and Remove
BatchExtra == 1      \* ready descriptors beyond the event buffer's capacity

\* ------------------------------------------------------------- constants
EventCap == 100      \* make([]unix.EpollEvent, 100)

Nil     == 0                                  \* the nil net.Conn
Handles == {1, 2}                             \* the connections of Spec
Workers == 1..NumWorkers
Waiters == {NumWorkers + 1}                   \* the goroutine that polls
Pollers == {NumWorkers + 2, NumWorkers + 3}   \* two goroutines that poll
Procs   == Workers \cup Waiters \cup Pollers
NoProc  == 0

BatchHandles == 1..(EventCap + BatchExtra)

\* socketFD: the Sysfd of the connection; distinct live connections have
\* distinct descriptors, and descriptors 0..2 are the standard streams.
socketFD(conn) == conn + 2

\* a net.Conn that is not a *net.TCPConn (an end of net.Pipe, say): it has no
\* field conn.fd.pfd.Sysfd for socketFD to read
NoFdHandles == {3}

NoRet == [op |-> "none", conn |-> Nil, err |-> "nil", fds |-> <<>>, conns |-> <<>>,
          interrupted |-> FALSE]

VARIABLES
    connections,  \* e.connections: map[int]net.Conn, a function on its key set
    epset,        \* kernel: descriptors in the interest list of e.fd
    readable,     \* kernel: descriptors with undrained input (or hangup)
    rdllist,      \* kernel: the ready list of e.fd (ep->rdllist), head first
    txlist,       \* kernel: during a scan, the part of the ready list not walked
    ovflist,      \* kernel: during a scan, the descriptors woken up (ep->ovflist)
    wlock,        \* e.lock: the goroutine holding it exclusively, or NoProc
    rlock,        \* e.lock: the goroutines holding it shared
    pc,           \* where each goroutine is
    arg,          \* the conn parameter of the running Add or Remove
    events,       \* Wait: events[0:n] as filled in by EpollWait
    conns,        \* Wait: the local slice `connections`
    eintr,        \* history: whether this Wait of a goroutine of Waiters has
                  \* taken the goto retry
    last,         \* history: the call that returned in the last step, and its results
    hstat         \* history: per handle, the last Add or Remove that returned nil

vars == <<connections, epset, readable, rdllist, txlist, ovflist, wlock, rlock,
          pc, arg, events, conns, eintr, last, hstat>>

kernel == <<epset, readable, rdllist, txlist, ovflist>>
locks  == <<wlock, rlock>>
locals == <<arg, events, conns, eintr>>

\* ------------------------------------------------------------- sequences
Range(s) == {s[i] : i \in 1..Len(s)}

Min(a, b) == IF a < b THEN a ELSE b

SeqWithout(s, x) == SelectSeq(s, LAMBDA y : y # x)

\* ------------------------------------------------------------- the table
\* a translation that reads the event's mask (POLLIN) where it should read
\* the event's descriptor
LookupEventMask(t, fd) == IF 1 \in DOMAIN t THEN t[1] ELSE Nil

\* conn := e.connections[fd]: the zero value when the key is absent
Lookup(t, fd) == IF fd \in DOMAIN t THEN t[fd] ELSE Nil

\* an insert keyed by the descriptor of the epoll instance (e.fd, here 0)
\* where it should be keyed by the connection's
TableInsertWrongKey(t, fd, conn) ==
    [k \in (DOMAIN t) \cup {0} |-> IF k = 0 THEN conn ELSE t[k]]

\* an insert that is not serialised with the others: it writes back a table
\* read before the other inserts, and loses them
TableInsertLost(t, fd, conn) == [k \in {fd} |-> conn]

\* e.connections[fd] = conn
TableInsert(t, fd, conn) ==
    [k \in (DOMAIN t) \cup {fd} |-> IF k = fd THEN conn ELSE t[k]]

\* a delete that replaces the map by an empty one
TableDeleteAll(t, fd) == <<>>

\* a Remove that forgets the delete
TableDeleteSkipped(t, fd) == t

\* delete(e.connections, fd)
TableDelete(t, fd) == [k \in (DOMAIN t) \ {fd} |-> t[k]]

\* ------------------------------------------------------------ the kernel
\* epoll_ctl(EPOLL_CTL_ADD) with POLLIN|POLLHUP: EEXIST when the descriptor
\* is in the interest list, ENOSPC when the kernel refuses (fault); a
\* descriptor that is readable at registration is queued at once.
EpollCtlAdd(fd, fault) ==
    IF fd \in epset
    THEN [err |-> "EEXIST", epset |-> epset, rdllist |-> rdllist]
    ELSE IF fault
    THEN [err |-> "ENOSPC", epset |-> epset, rdllist |-> rdllist]
    ELSE [err |-> "nil", epset |-> epset \cup {fd},
          rdllist |-> IF fd \in readable THEN Append(rdllist, fd) ELSE rdllist]

\* a deregistration that reports success for a descriptor it does not hold
EpollCtlDelIdempotent(fd) ==
    [err |-> "nil", epset |-> epset \ {fd}, rdllist |-> SeqWithout(rdllist, fd)]

\* epoll_ctl(EPOLL_CTL_DEL): ENOENT when the descriptor is not registered
EpollCtlDel(fd) ==
    IF fd \notin epset
    THEN [err |-> "ENOENT", epset |-> epset, rdllist |-> rdllist]
    ELSE [err |-> "nil", epset |-> epset \ {fd},
          rdllist |-> SeqWithout(rdllist, fd)]

\* epoll_wait walks the ready list from its head and polls each item: an
\* item that is not ready is dropped, a ready one fills the next event, and
\* the walk ends with the list or with the event that fills the buffer.
\* ScanStop is the number of items walked.
ScanStop(rdl, rd) ==
    LET ready(k) == Cardinality({i \in 1..k : rdl[i] \in rd}) IN
    IF ready(Len(rdl)) < EventCap
    THEN Len(rdl)
    ELSE CHOOSE k \in 1..Len(rdl) : rdl[k] \in rd /\ ready(k) = EventCap

\* an event buffer that grows with the ready list
ReportedEventsUnbounded(rdl, rd) == SelectSeq(rdl, LAMBDA fd : fd \in rd)

\* epoll_wait with maxevents = len(events): the first n ready items of the
\* ready list
ReportedEvents(rdl, rd) ==
    SelectSeq(SubSeq(rdl, 1, ScanStop(rdl, rd)), LAMBDA fd : fd \in rd)

\* the items the walk did not reach: they go back to the head of the ready
\* list when the scan ends
Unscanned(rdl, rd) == SubSeq(rdl, ScanStop(rdl, rd) + 1, Len(rdl))

\* a registration that is one-shot or edge-triggered: a reported descriptor
\* leaves the ready list
RequeueOneShot(rdl, rd) == <<>>

\* level-triggered: a reported descriptor is linked again at the tail of the
\* ready list, which the walk is filling anew
Requeue(rdl, rd) == ReportedEvents(rdl, rd)

\* the end of a scan: the descriptors woken up during it that are not linked
\* go to the head of the ready list, in the order of their wakeups, and the
\* items not walked go in front of them
ScanDone(tx, ovf, rdl) ==
    tx \o SelectSeq(ovf, LAMBDA fd : fd \notin Range(tx) \cup Range(rdl)) \o rdl

\* a wakeup: during a scan the descriptor is chained on ovflist, once;
\* otherwise it is linked at the tail of the ready list unless it is linked
Wakeup(fd, scanning, ovf, rdl) ==
    IF scanning
    THEN [ovflist |-> IF fd \in Range(ovf) THEN ovf ELSE Append(ovf, fd),
          rdllist |-> rdl]
    ELSE [ovflist |-> ovf,
          rdllist |-> IF fd \in Range(rdl) THEN rdl ELSE Append(rdl, fd)]

\* a Wait that returns every error, EINTR included
IsRetryNever(err) == FALSE

\* a Wait that retries on every error
IsRetryAlways(err) == TRUE

\* if err == unix.EINTR { goto retry }
IsRetry(err) == err = "EINTR"

\* ------------------------------------------------------------------ Init
Init ==
    /\ connections = <<>>
    /\ epset = {}
    /\ readable = {}
    /\ rdllist = <<>>
    /\ txlist = <<>>
    /\ ovflist = <<>>
    /\ wlock = NoProc
    /\ rlock = {}
    /\ pc = [p \in Procs |-> "idle"]
    /\ arg = [p \in Procs |-> Nil]
    /\ events = [p \in Procs |-> <<>>]
    /\ conns = [p \in Procs |-> <<>>]
    /\ eintr = [p \in Procs |-> FALSE]
    /\ last = NoRet
    /\ hstat = [c \in Handles |-> "none"]

\* ---------------------------------------------------------------- history
\* `last` describes the step just taken: the call that returned in it and
\* what it returned, NoRet when no call returned in it
Returned(op, conn, err, fds, cs, interrupted) ==
    [op |-> op, conn |-> conn, err |-> err, fds |-> fds, conns |-> cs,
     interrupted |-> interrupted]

\* a goroutine is inside the scan of epoll_wait, holding ep->mtx: epoll_ctl
\* and the scan of another epoll_wait wait for it
Scanning == \E q \in Procs : pc[q] = "wait_scan"

\* ------------------------------------------------------------------- Add
\* an Add that writes the table before it looks at the syscall's error
AddCallInsertFirst(p, conn, fault) ==
    /\ pc[p] = "idle"
    /\ ~Scanning
    /\ LET r == EpollCtlAdd(socketFD(conn), fault) IN
        /\ epset' = r.epset
        /\ rdllist' = r.rdllist
        /\ connections' = TableInsert(connections, socketFD(conn), conn)
        /\ IF r.err # "nil"
           THEN /\ last' = Returned("Add", conn, r.err, <<>>, <<>>, FALSE)
                /\ UNCHANGED <<pc, arg>>
           ELSE /\ pc' = [pc EXCEPT ![p] = "add_lock"]
                /\ arg' = [arg EXCEPT ![p] = conn]
                /\ last' = NoRet
    /\ UNCHANGED <<readable, txlist, ovflist, locks, events, conns, eintr, hstat>>

\* lines 41-45: socketFD, EpollCtl(EPOLL_CTL_ADD), return err on failure
AddCall(p, conn, fault) ==
    /\ pc[p] = "idle"
    /\ ~Scanning
    /\ LET r == EpollCtlAdd(socketFD(conn), fault) IN
        /\ epset' = r.epset
        /\ rdllist' = r.rdllist
        /\ IF r.err # "nil"
           THEN /\ last' = Returned("Add", conn, r.err, <<>>, <<>>, FALSE)
                /\ UNCHANGED <<pc, arg>>
           ELSE /\ pc' = [pc EXCEPT ![p] = "add_lock"]
                /\ arg' = [arg EXCEPT ![p] = conn]
                /\ last' = NoRet
    /\ UNCHANGED <<connections, readable, txlist, ovflist, locks, events, conns,
                   eintr, hstat>>

\* a lock whose writers do not wait for the readers to leave
AddLockOverReaders(p) ==
    /\ pc[p] = "add_lock"
    /\ wlock = NoProc
    /\ wlock' = p
    /\ pc' = [pc EXCEPT ![p] = "add_cs"]
    /\ last' = NoRet
    /\ UNCHANGED <<connections, kernel, rlock, locals, hstat>>

\* line 47: e.lock.Lock()
AddLock(p) ==
    /\ pc[p] = "add_lock"
    /\ wlock = NoProc
    /\ rlock = {}
    /\ wlock' = p
    /\ pc' = [pc EXCEPT ![p] = "add_cs"]
    /\ last' = NoRet
    /\ UNCHANGED <<connections, kernel, rlock, locals, hstat>>

\* an Add without the deferred Unlock
AddInsertKeepsLock(p) ==
    /\ pc[p] = "add_cs"
    /\ connections' = TableInsert(connections, socketFD(arg[p]), arg[p])
    /\ pc' = [pc EXCEPT ![p] = "idle"]
    /\ last' = Returned("Add", arg[p], "nil", <<>>, <<>>, FALSE)
    /\ arg' = [arg EXCEPT ![p] = Nil]
    /\ hstat' = [hstat EXCEPT ![arg[p]] = "added"]
    /\ UNCHANGED <<kernel, locks, events, conns, eintr>>

\* lines 50-54: the insert, the deferred Unlock, return nil (the log line
\* at every hundredth connection changes no state)
AddInsert(p) ==
    /\ pc[p] = "add_cs"
    /\ connections' = TableInsert(connections, socketFD(arg[p]), arg[p])
    /\ wlock' = NoProc
    /\ pc' = [pc EXCEPT ![p] = "idle"]
    /\ last' = Returned("Add", arg[p], "nil", <<>>, <<>>, FALSE)
    /\ arg' = [arg EXCEPT ![p] = Nil]
    /\ hstat' = [hstat EXCEPT ![arg[p]] = "added"]
    /\ UNCHANGED <<kernel, rlock, events, conns, eintr>>

\* ---------------------------------------------------------------- Remove
\* lines 58-63: socketFD, EpollCtl(EPOLL_CTL_DEL), return err on failure
RemoveCall(p, conn) ==
    /\ pc[p] = "idle"
    /\ ~Scanning
    /\ LET r == EpollCtlDel(socketFD(conn)) IN
        /\ epset' = r.epset
        /\ rdllist' = r.rdllist
        /\ IF r.err # "nil"
           THEN /\ last' = Returned("Remove", conn, r.err, <<>>, <<>>, FALSE)
                /\ UNCHANGED <<pc, arg>>
           ELSE /\ pc' = [pc EXCEPT ![p] = "rm_lock"]
                /\ arg' = [arg EXCEPT ![p] = conn]
                /\ last' = NoRet
    /\ UNCHANGED <<connections, readable, txlist, ovflist, locks, events, conns,
                   eintr, hstat>>

\* line 65: e.lock.Lock()
RemoveLock(p) ==
    /\ pc[p] = "rm_lock"
    /\ wlock = NoProc
    /\ rlock = {}
    /\ wlock' = p
    /\ pc' = [pc EXCEPT ![p] = "rm_cs"]
    /\ last' = NoRet
    /\ UNCHANGED <<connections, kernel, rlock, locals, hstat>>

\* lines 68-72: the delete, the deferred Unlock, return nil (the log line
\* changes no state)
RemoveDelete(p) ==
    /\ pc[p] = "rm_cs"
    /\ connections' = TableDelete(connections, socketFD(arg[p]))
    /\ wlock' = NoProc
    /\ pc' = [pc EXCEPT ![p] = "idle"]
    /\ last' = Returned("Remove", arg[p], "nil", <<>>, <<>>, FALSE)
    /\ arg' = [arg EXCEPT ![p] = Nil]
    /\ hstat' = [hstat EXCEPT ![arg[p]] = "removed"]
    /\ UNCHANGED <<kernel, rlock, events, conns, eintr>>

\* ------------------------------------------------------------------ Wait
\* line 76: events := make([]unix.EpollEvent, 100)
WaitCall(p) ==
    /\ pc[p] = "idle"
    /\ pc' = [pc EXCEPT ![p] = "wait_sys"]
    /\ eintr' = [eintr EXCEPT ![p] = FALSE]
    /\ last' = NoRet
    /\ UNCHANGED <<connections, kernel, locks, arg, events, conns, hstat>>

\* line 78, err == nil.  With an empty ready list the 100 ms timeout passes
\* and n = 0.  Otherwise the kernel scans the ready list: the walk fills
\* events[0:n]; wakeups interleave until the scan ends (WaitScanDone).
WaitSyscall(p) ==
    /\ pc[p] = "wait_sys"
    /\ ~Scanning
    /\ IF rdllist = <<>>
       THEN /\ events' = [events EXCEPT ![p] = <<>>]
            /\ pc' = [pc EXCEPT ![p] = "wait_lock"]
            /\ UNCHANGED <<rdllist, txlist>>
       ELSE /\ events' = [events EXCEPT ![p] = ReportedEvents(rdllist, readable)]
            /\ txlist' = Unscanned(rdllist, readable)
            /\ rdllist' = Requeue(rdllist, readable)
            /\ pc' = [pc EXCEPT ![p] = "wait_scan"]
    /\ last' = NoRet
    /\ UNCHANGED <<connections, epset, readable, ovflist, locks, arg, conns,
                   eintr, hstat>>

\* line 78, the end of the scan: the ready list is put together again and
\* EpollWait returns n; when the walk found no ready item (n = 0) the call
\* goes on waiting
WaitScanDone(p) ==
    /\ pc[p] = "wait_scan"
    /\ rdllist' = ScanDone(txlist, ovflist, rdllist)
    /\ txlist' = <<>>
    /\ ovflist' = <<>>
    /\ pc' = [pc EXCEPT ![p] = IF events[p] = <<>> THEN "wait_sys" ELSE "wait_lock"]
    /\ last' = NoRet
    /\ UNCHANGED <<connections, epset, readable, locks, locals, hstat>>

\* line 78 with err # nil, lines 79-85: retry on EINTR, return any other error
WaitSyscallErr(p, err) ==
    /\ pc[p] = "wait_sys"
    /\ IF IsRetry(err)
       THEN /\ eintr' = [eintr EXCEPT ![p] = p \in Waiters]
            /\ last' = NoRet
            /\ UNCHANGED pc
       ELSE /\ pc' = [pc EXCEPT ![p] = "idle"]
            /\ last' = Returned("Wait", Nil, err, <<>>, <<>>, eintr[p])
            /\ eintr' = [eintr EXCEPT ![p] = FALSE]
    /\ UNCHANGED <<connections, kernel, locks, arg, events, conns, hstat>>

\* line 87: e.lock.RLock()
WaitRLock(p) ==
    /\ pc[p] = "wait_lock"
    /\ wlock = NoProc
    /\ rlock' = rlock \cup {p}
    /\ pc' = [pc EXCEPT ![p] = "wait_cs"]
    /\ conns' = [conns EXCEPT ![p] = <<>>]
    /\ last' = NoRet
    /\ UNCHANGED <<connections, kernel, wlock, arg, events, eintr, hstat>>

\* a translation that skips the descriptors the table does not hold
WaitLookupSkipMiss(p) ==
    /\ pc[p] = "wait_cs"
    /\ Len(conns[p]) < Len(events[p])
    /\ LET i == Len(conns[p]) + 1
           c == Lookup(connections, events[p][i]) IN
        IF c = Nil
        THEN /\ events' = [events EXCEPT ![p] =
                             SubSeq(@, 1, i - 1) \o SubSeq(@, i + 1, Len(@))]
             /\ UNCHANGED conns
        ELSE /\ conns' = [conns EXCEPT ![p] = Append(@, c)]
             /\ UNCHANGED events
    /\ last' = NoRet
    /\ UNCHANGED <<connections, kernel, locks, pc, arg, eintr, hstat>>

\* lines 90-93: one iteration of the translation loop, i = len(connections)
WaitLookup(p) ==
    /\ pc[p] = "wait_cs"
    /\ Len(conns[p]) < Len(events[p])
    /\ conns' = [conns EXCEPT ![p] =
                   Append(@, Lookup(connections, events[p][Len(@) + 1]))]
    /\ last' = NoRet
    /\ UNCHANGED <<connections, kernel, locks, pc, arg, events, eintr, hstat>>

\* line 94 and the deferred RUnlock
WaitReturn(p) ==
    /\ pc[p] = "wait_cs"
    /\ Len(conns[p]) = Len(events[p])
    /\ rlock' = rlock \ {p}
    /\ pc' = [pc EXCEPT ![p] = "idle"]
    /\ last' = Returned("Wait", Nil, "nil", events[p], conns[p], eintr[p])
    /\ events' = [events EXCEPT ![p] = <<>>]
    /\ conns' = [conns EXCEPT ![p] = <<>>]
    /\ eintr' = [eintr EXCEPT ![p] = FALSE]
    /\ UNCHANGED <<connections, kernel, wlock, arg, hstat>>

\* ----------------------------------------------------------- environment
\* the peer sends data (or hangs up): the descriptor becomes readable and,
\* when registered, its wakeup callback runs
DataArrives(fd) ==
    /\ fd \notin readable
    /\ readable' = readable \cup {fd}
    /\ LET w == Wakeup(fd, Scanning, ovflist, rdllist) IN
        IF fd \in epset
        THEN ovflist' = w.ovflist /\ rdllist' = w.rdllist
        ELSE UNCHANGED <<ovflist, rdllist>>
    /\ last' = NoRet
    /\ UNCHANGED <<connections, epset, txlist, locks, pc, locals, hstat>>

\* the application reads the descriptor empty: its item stays linked on the
\* ready list until a scan polls it and drops it
Drain(fd) ==
    /\ fd \in readable
    /\ readable' = readable \ {fd}
    /\ last' = NoRet
    /\ UNCHANGED <<connections, epset, rdllist, txlist, ovflist, locks, pc,
                   locals, hstat>>

WaitErrnos == {"EINTR", "EFAULT"}

Fds == {socketFD(c) : c \in Handles}

Next ==
    \/ \E p \in Workers, c \in Handles, fault \in BOOLEAN : AddCall(p, c, fault)
    \/ \E p \in Workers : AddLock(p)
    \/ \E p \in Workers : AddInsert(p)
    \/ \E p \in Workers, c \in Handles : RemoveCall(p, c)
    \/ \E p \in Workers : RemoveLock(p)
    \/ \E p \in Workers : RemoveDelete(p)
    \/ \E p \in Waiters : WaitCall(p)
    \/ \E p \in Waiters : WaitSyscall(p)
    \/ \E p \in Waiters : WaitScanDone(p)
    \/ \E p \in Waiters, err \in WaitErrnos : WaitSyscallErr(p, err)
    \/ \E p \in Waiters : WaitRLock(p)
    \/ \E p \in Waiters : WaitLookup(p)
    \/ \E p \in Waiters : WaitReturn(p)
    \/ \E fd \in Fds : DataArrives(fd)
    \/ \E fd \in Fds : Drain(fd)

Spec == Init /\ [][Next]_vars

\* the multiplexer used by Add and Wait alone: no handle is removed
NextAdds ==
    \/ \E p \in Workers, c \in Handles, fault \in BOOLEAN : AddCall(p, c, fault)
    \/ \E p \in Workers : AddLock(p)
    \/ \E p \in Workers : AddInsert(p)
    \/ \E p \in Waiters : WaitCall(p)
    \/ \E p \in Waiters : WaitSyscall(p)
    \/ \E p \in Waiters : WaitScanDone(p)
    \/ \E p \in Waiters, err \in WaitErrnos : WaitSyscallErr(p, err)
    \/ \E p \in Waiters : WaitRLock(p)
    \/ \E p \in Waiters : WaitLookup(p)
    \/ \E p \in Waiters : WaitReturn(p)
    \/ \E fd \in Fds : DataArrives(fd)
    \/ \E fd \in Fds : Drain(fd)

SpecAdds == Init /\ [][NextAdds]_vars

\* Scheduling.  A goroutine that polls keeps calling Wait, and the Go
\* scheduler lets every runnable goroutine run: a goroutine that holds the
\* lock leaves its critical section, and sync.RWMutex is starvation-free,
\* so a reader that keeps finding the lock free at times gets it.  The wait
\* syscall does not fail or get interrupted for ever.  The steps of one
\* goroutine are enabled at different positions, so one condition on their
\* disjunction is the condition on each.
Fairness ==
    /\ \A p \in Waiters :
        /\ WF_vars(WaitCall(p) \/ WaitScanDone(p) \/ WaitLookup(p) \/ WaitReturn(p))
        /\ SF_vars(WaitSyscall(p) \/ WaitRLock(p))
    /\ \A p \in Workers :
        /\ WF_vars(AddInsert(p) \/ RemoveDelete(p))

LiveSpec == Init /\ [][Next]_vars /\ Fairness

\* The polling goroutine alone, on a multiplexer to which more handles than
\* the event buffer holds have been added, all with undrained input that
\* arrived in the order of their descriptors.
BatchFds == {socketFD(c) : c \in BatchHandles}

InitBatch ==
    /\ connections = [fd \in BatchFds |-> fd - 2]
    /\ epset = BatchFds
    /\ readable = BatchFds
    /\ rdllist = [i \in 1..Cardinality(BatchHandles) |-> socketFD(i)]
    /\ txlist = <<>>
    /\ ovflist = <<>>
    /\ wlock = NoProc
    /\ rlock = {}
    /\ pc = [p \in Procs |-> "idle"]
    /\ arg = [p \in Procs |-> Nil]
    /\ events = [p \in Procs |-> <<>>]
    /\ conns = [p \in Procs |-> <<>>]
    /\ eintr = [p \in Procs |-> FALSE]
    /\ last = NoRet
    /\ hstat = [c \in BatchHandles |-> "added"]

NextBatch ==
    \/ \E p \in Waiters : WaitCall(p)
    \/ \E p \in Waiters : WaitSyscall(p)
    \/ \E p \in Waiters : WaitScanDone(p)
    \/ \E p \in Waiters, err \in WaitErrnos : WaitSyscallErr(p, err)
    \/ \E p \in Waiters : WaitRLock(p)
    \/ \E p \in Waiters : WaitLookup(p)
    \/ \E p \in Waiters : WaitReturn(p)

SpecBatch == InitBatch /\ [][NextBatch]_vars /\ Fairness

\* Scheduling of the goroutines that add and remove, whatever the polling
\* goroutine does outside its critical section: a goroutine that holds the
\* lock leaves its critical section, and a goroutine that waits in Lock gets
\* the lock when it keeps becoming free (sync.RWMutex queues its writers and
\* holds new readers back while a writer waits).  The kernel ends a scan it
\* has begun; nothing else makes the polling goroutine call Wait, get events
\* from the wait syscall or take the read lock.
FairnessWorkers ==
    /\ \A p \in Workers :
        /\ SF_vars(AddLock(p) \/ RemoveLock(p))
        /\ WF_vars(AddInsert(p) \/ RemoveDelete(p))
    /\ \A p \in Waiters :
        /\ WF_vars(WaitScanDone(p) \/ WaitLookup(p) \/ WaitReturn(p))

SpecWorkers == Init /\ [][Next]_vars /\ FairnessWorkers

\* lines 41 and 58 on a handle without a descriptor: FieldByName("conn")
\* gives the zero reflect.Value and FieldByName("fd") on it panics.  socketFD
\* has no error result: the call does not return, and the panic, which
\* nothing in Add or Remove recovers, ends the program.
SocketFDPanics(p, op, conn) ==
    /\ pc[p] = "idle"
    /\ conn \in NoFdHandles
    /\ pc' = [pc EXCEPT ![p] = "panicked"]
    /\ last' = Returned(op, conn, "panic", <<>>, <<>>, FALSE)
    /\ UNCHANGED <<connections, kernel, locks, locals, hstat>>

Running == \A p \in Procs : pc[p] # "panicked"

NextPanic ==
    \/ Running /\ Next
    \/ \E p \in Workers, op \in {"Add", "Remove"}, conn \in NoFdHandles :
          Running /\ SocketFDPanics(p, op, conn)

SpecPanic == Init /\ [][NextPanic]_vars

\* Two polling goroutines next to the goroutines that add and remove
NextLock ==
    \/ \E p \in Workers, c \in Handles, fault \in BOOLEAN : AddCall(p, c, fault)
    \/ \E p \in Workers : AddLock(p)
    \/ \E p \in Workers : AddInsert(p)
    \/ \E p \in Workers, c \in Handles : RemoveCall(p, c)
    \/ \E p \in Workers : RemoveLock(p)
    \/ \E p \in Workers : RemoveDelete(p)
    \/ \E p \in Pollers : WaitCall(p)
    \/ \E p \in Pollers : WaitSyscall(p)
    \/ \E p \in Pollers : WaitScanDone(p)
    \/ \E p \in Pollers, err \in WaitErrnos : WaitSyscallErr(p, err)
    \/ \E p \in Pollers : WaitRLock(p)
    \/ \E p \in Pollers : WaitLookup(p)
    \/ \E p \in Pollers : WaitReturn(p)
    \/ \E fd \in Fds : DataArrives(fd)
    \/ \E fd \in Fds : Drain(fd)

SpecLock == Init /\ [][NextLock]_vars

\* ============================================================== claims

\* c is registered, in the table, and has undrained input
ReadyRegistered(c) ==
    /\ socketFD(c) \in epset
    /\ socketFD(c) \in readable
    /\ socketFD(c) \in DOMAIN connections
    /\ connections[socketFD(c)] = c

\* the step just taken is the return of a Wait whose result holds c
WaitReturned(c) == last.op = "Wait" /\ last.err = "nil" /\ c \in Range(last.conns)

\* C1: in every reachable state the key set of e.connections equals the set
\* of descriptors registered with the epoll instance.
C1_TableEqualsRegistered == DOMAIN connections = epset

\* C2: once Remove(c) has returned nil, and until c is inserted again, no
\* Wait that returns holds c in its result, also when the kernel reported
\* c's descriptor to that Wait before the Remove.
C2_RemovedNotReturned ==
    \A c \in DOMAIN hstat : hstat[c] = "removed" => ~WaitReturned(c)

\* a Wait returns after Remove(c): c's descriptor was reported to it, and the
\* lookup gave nil
C2_Witness ==
    /\ last.op = "Wait"
    /\ \E c \in DOMAIN hstat : \E i \in 1..Len(last.fds) :
        /\ hstat[c] = "removed"
        /\ last.fds[i] = socketFD(c)
        /\ last.conns[i] = Nil

\* C3: under fair scheduling of the polling goroutine, a handle that is in
\* the table, registered and has undrained input is in the result of a Wait
\* that returns later, unless it is drained or removed first.
C3_ReadyEventuallyReturned ==
    \A c \in Handles :
        ReadyRegistered(c) ~> (WaitReturned(c) \/ ~ReadyRegistered(c))

\* a Wait returns a handle that is still registered and undrained
C3_Witness ==
    \E c \in Handles :
        /\ WaitReturned(c)
        /\ ReadyRegistered(c)
        /\ hstat[c] = "added"

\* C4: a Remove(c) whose descriptor is not registered returns an error at
\* once and changes neither the table nor the registered set.
C4_RemoveUnregisteredFails ==
    [][\A p \in Workers, c \in Handles :
          (socketFD(c) \notin epset /\ RemoveCall(p, c)) =>
              /\ last'.op = "Remove"
              /\ last'.conn = c
              /\ last'.err # "nil"
              /\ pc'[p] = "idle"
              /\ connections' = connections
              /\ epset' = epset]_vars

\* a Remove of a handle that was removed before fails, the table holding
\* another handle
C4_Witness ==
    /\ last.op = "Remove"
    /\ last.err = "ENOENT"
    /\ hstat[last.conn] = "removed"
    /\ connections # <<>>

\* C5: with Add calls alone, on handles of distinct descriptors and from
\* concurrent goroutines, the table holds exactly one entry per Add that
\* returned nil, mapping the descriptor to the handle added.
C5_AddsAllPresent ==
    LET added == {c \in Handles : hstat[c] = "added"} IN
    /\ DOMAIN connections = {socketFD(c) : c \in added}
    /\ \A c \in added : connections[socketFD(c)] = c
    /\ Cardinality(DOMAIN connections) = Cardinality(added)

\* every handle has been added, the last Add having just returned
C5_Witness ==
    /\ last.op = "Add"
    /\ last.err = "nil"
    /\ \A c \in Handles : hstat[c] = "added"
    /\ Cardinality(DOMAIN connections) = Cardinality(Handles)

\* C6: Wait never returns EINTR; an interrupted syscall is retried, the
\* retry changing nothing but the position in the loop, and the Wait then
\* returns what an uninterrupted Wait returns.
C6_EINTRAbsorbed ==
    /\ [](last.op = "Wait" => last.err # "EINTR")
    /\ [][\A p \in Waiters :
             WaitSyscallErr(p, "EINTR") =>
                 /\ pc'[p] = "wait_sys"
                 /\ last' = NoRet
                 /\ UNCHANGED <<connections, kernel, locks, events, conns>>]_vars

\* a Wait that was interrupted returns a ready handle and no error
C6_Witness ==
    /\ last.op = "Wait"
    /\ last.err = "nil"
    /\ last.interrupted
    /\ \E c \in Handles : c \in Range(last.conns)

\* C7: on an error other than EINTR, Wait returns it with no handles,
\* without retrying and without the lock, and leaves the table, the kernel
\* state and the lock as they were; the caller is idle again.
C7_WaitErrorReturned ==
    [][\A p \in Waiters, err \in WaitErrnos \ {"EINTR"} :
          WaitSyscallErr(p, err) =>
              /\ last' = Returned("Wait", Nil, err, <<>>, <<>>, eintr[p])
              /\ pc'[p] = "idle"
              /\ p \notin rlock'
              /\ events'[p] = <<>> /\ conns'[p] = <<>> /\ eintr'[p] = FALSE
              /\ UNCHANGED <<connections, kernel, locks>>]_vars

\* a Wait has failed while descriptors are registered and ready
C7_Witness ==
    /\ last.op = "Wait"
    /\ last.err = "EFAULT"
    /\ rdllist # <<>>
    /\ connections # <<>>

\* C8: when the registration inside Add fails, Add returns the error and
\* the table is unchanged.
C8_AddFailureKeepsTable ==
    [][\A p \in Workers, c \in Handles, fault \in BOOLEAN :
          (EpollCtlAdd(socketFD(c), fault).err # "nil" /\ AddCall(p, c, fault)) =>
              /\ last' = Returned("Add", c, EpollCtlAdd(socketFD(c), fault).err,
                                  <<>>, <<>>, FALSE)
              /\ pc'[p] = "idle"
              /\ connections' = connections
              /\ epset' = epset]_vars

\* an Add of a registered handle has failed; its entry is still there
C8_Witness ==
    /\ last.op = "Add"
    /\ last.err = "EEXIST"
    /\ Lookup(connections, socketFD(last.conn)) = last.conn

\* C9: a Wait returns at most 100 handles; when more descriptors are ready,
\* those the scan does not report stay queued and are at the head of the
\* ready list, ahead of the reported ones, when the scan ends; and every
\* handle, staying ready and registered as all do here, is in the result of
\* a later Wait again and again.
C9_BatchedNotLost ==
    /\ [](last.op = "Wait" => Len(last.conns) <= EventCap)
    /\ [][\A p \in Waiters :
             /\ WaitSyscall(p) =>
                 /\ Len(events'[p]) =
                       Min(Cardinality(Range(rdllist) \cap readable), EventCap)
                 /\ (Range(rdllist) \cap readable) \ Range(events'[p])
                       \subseteq Range(txlist')
             /\ WaitScanDone(p) =>
                 /\ Range(rdllist') = Range(txlist) \cup Range(ovflist)
                                         \cup Range(rdllist)
                 /\ SubSeq(rdllist', 1, Len(txlist)) = txlist]_vars
    /\ [](\A c \in BatchHandles : ReadyRegistered(c))
    /\ \A c \in BatchHandles : []<>WaitReturned(c)

\* a Wait returns 100 handles while another descriptor, which it did not
\* report, is ready
C9_Witness ==
    /\ last.op = "Wait"
    /\ Len(last.conns) = EventCap
    /\ \E c \in BatchHandles :
        /\ ReadyRegistered(c)
        /\ c \notin Range(last.conns)
        /\ rdllist[1] = socketFD(c)

\* the descriptors linked on the ready list, or held by a scan in progress
Queued == Range(rdllist) \cup Range(txlist) \cup Range(ovflist)

\* C10: readiness is level-triggered.  No step of Wait takes a descriptor
\* with undrained input off the kernel's lists or drains it, and a handle that Wait has returned and
\* that stays registered and undrained is returned again by a later Wait.
C10_LevelTriggered ==
    /\ [][(\E p \in Waiters : pc[p] # "idle" /\ pc'[p] # pc[p]) =>
             /\ Queued \cap readable \subseteq Queued'
             /\ readable' = readable
             /\ epset' = epset]_vars
    /\ \A c \in Handles :
          (WaitReturned(c) /\ ReadyRegistered(c)) ~>
              (~ReadyRegistered(c) \/
                  (~WaitReturned(c) /\ <>(WaitReturned(c) \/ ~ReadyRegistered(c))))

\* a Wait has returned a handle, and the handle's descriptor is still on the
\* ready list
C10_Witness ==
    \E c \in Handles :
        /\ WaitReturned(c)
        /\ ReadyRegistered(c)
        /\ socketFD(c) \in Range(rdllist)

\* the goroutines inside the critical sections of Add and Remove, and of Wait
InWriteCS == {p \in Procs : pc[p] \in {"add_cs", "rm_cs"}}
InReadCS  == {p \in Procs : pc[p] = "wait_cs"}

\* C11: a goroutine inside the insert or delete critical section is alone
\* in the critical sections; several Wait translations may be inside
\* together; and the table does not change between the first and the last
\* lookup of a Wait.
C11_ReadersWriterExclusion ==
    /\ [](/\ Cardinality(InWriteCS) <= 1
          /\ InWriteCS # {} => InReadCS = {}
          /\ InWriteCS = (IF wlock = NoProc THEN {} ELSE {wlock})
          /\ InReadCS = rlock)
    /\ [][(\E p \in Procs : pc[p] = "wait_cs") => connections' = connections]_vars

\* two Wait translations are inside together, one of them between its first
\* and its second lookup, while an Add waits for the lock
C11_Witness ==
    /\ Cardinality(InReadCS) = 2
    /\ \E p \in InReadCS : Len(events[p]) = 2 /\ Len(conns[p]) = 1
    /\ \E p \in Workers : pc[p] = "add_lock"

\* a goroutine waits for the lock
WaitsForLock(p) == pc[p] \in {"add_lock", "rm_lock", "wait_lock"}

\* C12: a Wait that is in the wait syscall, scanning or not, or on its way to RLock, holds no
\* lock; a goroutine that has returned holds no lock; a goroutine that waits
\* for the lock can take it, or a holder of the lock can take a step; and
\* under fair scheduling of the goroutines that add and remove, every Add
\* and Remove returns, whatever Wait does.
C12_NoLockHeldWhileBlocked ==
    /\ [](\A p \in Procs :
            pc[p] \in {"idle", "wait_sys", "wait_scan", "wait_lock", "add_lock",
                       "rm_lock"} =>
                p \notin rlock /\ wlock # p)
    /\ [](\A p \in Procs :
            WaitsForLock(p) =>
                \/ ENABLED (AddLock(p) \/ RemoveLock(p) \/ WaitRLock(p))
                \/ \E q \in Procs :
                    /\ wlock = q \/ q \in rlock
                    /\ ENABLED (AddInsert(q) \/ RemoveDelete(q)
                                   \/ WaitLookup(q) \/ WaitReturn(q)))
    /\ \A p \in Workers : (pc[p] # "idle") ~> (pc[p] = "idle")

\* a Remove has returned while a Wait sits in the wait syscall and another
\* goroutine waits for the lock
C12_Witness ==
    /\ last.op = "Remove"
    /\ last.err = "nil"
    /\ \E p \in Waiters : pc[p] = "wait_sys"
    /\ \E p \in Workers : WaitsForLock(p)

\* C13: Add and Remove on a handle that exposes no raw descriptor return an
\* error to their caller, which goes on running, before any registration
\* call, and leave the table and the registered set unchanged.
C13_NoDescriptorReturnsError ==
    [][\A p \in Workers, op \in {"Add", "Remove"}, conn \in NoFdHandles :
          SocketFDPanics(p, op, conn) =>
              /\ pc'[p] = "idle"
              /\ last'.op = op
              /\ last'.err \notin {"nil", "panic"}
              /\ connections' = connections
              /\ epset' = epset]_vars

\* the entry of the table for a descriptor, nil when there is none
EntryOf(fd) == IF fd \in DOMAIN connections THEN connections[fd] ELSE Nil

\* C14: a Wait that succeeds returns one entry per descriptor the syscall
\* reported, in the reported order (the order of the ready descriptors on
\* the ready list); entry i is what the table holds for the
\* i-th descriptor at translation time, nil when it holds nothing; a miss
\* does not shorten the result.
C14_OneEntryPerEvent ==
    /\ [](last.op = "Wait" /\ last.err = "nil" =>
            /\ Len(last.conns) = Len(last.fds)
            /\ \A i \in 1..Len(last.fds) : last.conns[i] = EntryOf(last.fds[i]))
    /\ [][\A p \in Waiters :
             /\ WaitSyscall(p) =>
                   events'[p] = SubSeq(SelectSeq(rdllist, LAMBDA fd : fd \in readable),
                                       1, Len(events'[p]))
             /\ pc[p] \in {"wait_scan", "wait_lock", "wait_cs"} =>
                   IF pc'[p] = "idle"
                   THEN last'.fds = events[p] /\ last'.err = "nil"
                   ELSE events'[p] = events[p]]_vars

\* a Wait returns two entries, the first nil for a descriptor the table
\* does not hold, the second a handle
C14_Witness ==
    /\ last.op = "Wait"
    /\ Len(last.conns) = 2
    /\ last.conns[1] = Nil
    /\ last.conns[2] \in Handles

\* C15: an Add that succeeds changes the table at its handle's descriptor
\* alone, which then maps to the handle; a Remove that succeeds changes it
\* at its handle's descriptor alone, which then has no entry; no step of
\* Wait changes the table or the registered set.
C15_FrameOfTable ==
    [][/\ \A p \in Workers :
           /\ AddInsert(p) =>
                 /\ DOMAIN connections' = DOMAIN connections \cup {socketFD(arg[p])}
                 /\ connections'[socketFD(arg[p])] = arg[p]
                 /\ \A k \in DOMAIN connections \ {socketFD(arg[p])} :
                       connections'[k] = connections[k]
           /\ RemoveDelete(p) =>
                 /\ DOMAIN connections' = DOMAIN connections \ {socketFD(arg[p])}
                 /\ \A k \in DOMAIN connections' : connections'[k] = connections[k]
       /\ \A p \in Waiters :
           (\/ WaitCall(p) \/ WaitSyscall(p) \/ WaitScanDone(p) \/ WaitRLock(p)
            \/ WaitLookup(p) \/ WaitReturn(p)
            \/ \E err \in WaitErrnos : WaitSyscallErr(p, err)) =>
               connections' = connections /\ epset' = epset]_vars

\* a Remove has returned nil and the entry of the other handle is in place
C15_Witness ==
    /\ last.op = "Remove"
    /\ last.err = "nil"
    /\ \E c \in Handles \ {last.conn} : EntryOf(socketFD(c)) = c
    /\ socketFD(last.conn) \notin DOMAIN connections

\* C16: when no Add and no Remove is in progress, the key set of the table
\* equals the set of registered descriptors.
C16_QuiescentTableEqualsRegistered ==
    (\A p \in Workers : pc[p] = "idle") => DOMAIN connections = epset

\* C17: when Remove is never called, every entry of a successful Wait result
\* is a handle that was passed to Add, never nil.
C17_NoMissWithoutRemove ==
    (last.op = "Wait" /\ last.err = "nil") =>
        \A i \in 1..Len(last.conns) : last.conns[i] \in Handles

\* C18: every entry of the table maps a descriptor to a handle of that
\* descriptor, and every handle in a Wait result stands where its own
\* descriptor was reported.
C18_EntriesMatchDescriptor ==
    /\ \A fd \in DOMAIN connections :
          connections[fd] \in Handles /\ socketFD(connections[fd]) = fd
    /\ (last.op = "Wait" /\ last.err = "nil") =>
          \A i \in 1..Len(last.conns) :
              last.conns[i] # Nil => socketFD(last.conns[i]) = last.fds[i]

\* a Wait returns both handles, each for its own descriptor
C18_Witness ==
    /\ last.op = "Wait"
    /\ Len(last.conns) = 2
    /\ \A i \in 1..2 : last.conns[i] \in Handles
    /\ last.conns[1] # last.conns[2]

====
